---- MODULE Spec2Model ----
(***************************************************************************)
(* Model of src/main.py: the Trainer of the learning-not-to-learn          *)
(* classifier.  The trainer's control flow (train(), test(), the three     *)
(* step functions, the summary writers, checkpoint save/restore) is a      *)
(* state machine; the tensors are abstracted to what the control flow      *)
(* decides about them:                                                     *)
(*   - a parameter set (net, pred_net_r/g/b) is the number of updates      *)
(*     each optimizer has applied to it: [o1 |-> .., o2 |-> ..];           *)
(*   - an optimizer is its iteration counter and the parameter sets it     *)
(*     holds momentum slots for;                                           *)
(*   - a running metric is the number of update calls it accumulated;      *)
(*   - an embedding (feat_label) is the version of net it was computed     *)
(*     from.                                                               *)
(* The quantizer of _preprocess_dataset is modelled exactly on integers.   *)
(*                                                                         *)
(* global_step is the tf.Variable built in _build_model: lines 148 and 160 *)
(* rebind the attribute to what assign_add returns, which reads the same   *)
(* variable, so the model keeps one counter.  _restore_checkpoint is       *)
(* modelled for a readable checkpoint directory: the latest checkpoint,    *)
(* when there is one, is restored whole.  A process is followed from its   *)
(* construction to the return of train() or test(); a step of the batch    *)
(* loop is followed pass by pass.                                          *)
(***************************************************************************)
EXTENDS Integers, Sequences, FiniteSets, TLC

\* ---------------------------------------------------------------- bounds
MaxSamples == 3       \* training samples in the dataset: 0..MaxSamples
MaxTestSamples == 1   \* held-out samples: 0..MaxTestSamples
MaxBatchSize == 2     \* --batch_size: 1..MaxBatchSize
MaxEpoch == 6         \* --max_epoch: 0..MaxEpoch
MaxDimBias == 16      \* --dim_bias: 1..MaxDimBias (quantizer specification)

\* ------------------------------------------------------ program constants
VAL_EVERY == 5        \* main.py:228  epoch % 5 == 0
CHANNEL_RANGE == 256  \* main.py:71   range(0, 256, ...)
DEFAULT_DIM_BIAS == 16 \* main.py:261 default of --dim_bias

VARIABLES
    args,                 \* [phase, train_baseline, max_epoch, batch_size, dim_bias]
    train_n, test_n,      \* samples in dataset['train_image'], dataset['test_image']
    ckpt_dir,             \* the checkpoints saved so far, oldest first
    runs,                 \* processes started so far
    pc,                   \* position of the running process in train()/test()
    epoch, i,             \* train(): loop variable, index of the next batch
    net, pred_net_r, pred_net_g, pred_net_b,
    optimizer, optimizer_color,
    global_step, global_epoch,
    classifier_loss, color_loss, mi_loss, classifier_accuracy,
    test_classifier_loss, test_color_loss, test_mi_loss, test_classifier_accuracy,
    feat_label,           \* the version of net the last embedding was computed from
    summary_writer_train, summary_writer_val, stdout,
    before,               \* the trainer's state when the epoch loop was entered
    steps,                \* training-step calls completed by this process
    boundaries, colormap, bias   \* quantizer: thresholds, a channel value, its bucket

params == <<net, pred_net_r, pred_net_g, pred_net_b>>
predictors == <<pred_net_r, pred_net_g, pred_net_b>>
optimizers == <<optimizer, optimizer_color>>
counters == <<global_step, global_epoch>>
train_metrics == <<classifier_loss, color_loss, mi_loss, classifier_accuracy>>
test_metrics == <<test_classifier_loss, test_color_loss, test_mi_loss,
                  test_classifier_accuracy>>
sinks == <<summary_writer_train, summary_writer_val, stdout>>
dataset == <<train_n, test_n>>
quantizer == <<boundaries, colormap, bias>>
vars == <<args, dataset, ckpt_dir, runs, pc, epoch, i, params, optimizers, counters,
          train_metrics, test_metrics, feat_label, sinks, before, steps, quantizer>>

\* ------------------------------------------------------------- quantizer
\* Python's range(start, stop, step) for step > 0, as a sequence.
PyRange(start, stop, step) ==
    LET n == IF stop > start THEN (stop - start + step - 1) \div step ELSE 0
    IN  [k \in 1..n |-> start + (k - 1) * step]

\* list(range(0, 256, 256//dim_bias))[1:]
Boundaries(dim_bias) == Tail(PyRange(0, CHANNEL_RANGE, CHANNEL_RANGE \div dim_bias))

\* tf.raw_ops.Bucketize: the number of boundaries that are <= x.
Bucketize(x, bs) == Cardinality({k \in DOMAIN bs : bs[k] <= x})

\* ---------------------------------------------------------------- helpers
\* Mutant of Batches: batch(batch_size, drop_remainder=True).
BatchesDropRemainder(n, b) == n \div b

\* Dataset.batch(batch_size) without drop_remainder: batches per pass.
Batches(n, b) == (n + b - 1) \div b

NumTrainBatches == Batches(train_n, args.batch_size)
NumTestBatches == Batches(test_n, args.batch_size)

\* Mutant of assign_add: the counter advanced once per pass of a step.
assign_add_per_pass(v, d) == v + d + d

\* tf.Variable.assign_add
assign_add(v, d) == v + d

\* Mutant of update_state: the metric holds the last call only.
update_state_last(m) == 1

\* One call of a running metric (keras Mean / SparseCategoricalAccuracy):
\* the call is accumulated onto what the metric already holds.
update_state(m) == m + 1

\* A freshly built parameter set, optimizer.
FreshParams == [o1 |-> 0, o2 |-> 0]
FreshOptimizer == [iterations |-> 0, slots |-> {}]

\* optimizer.apply_gradients(zip(gradients, var_list)): the optimizer's side.
apply_gradients(opt, var_list) ==
    [iterations |-> opt.iterations + 1, slots |-> opt.slots \cup var_list]

\* optimizer.apply_gradients: the side of one parameter set, which is written
\* only when it is in var_list.
sgd(p, name, who, var_list) ==
    IF name \in var_list THEN [p EXCEPT ![who] = @ + 1] ELSE p

\* Mutant of Pass1Vars: pass 1 differentiates over everything its forward
\* computation evaluates.
Pass1VarsAll == {"net", "pred_net_r", "pred_net_g", "pred_net_b"}

\* The variable lists of the three gradient computations.
Pass1Vars == {"net"}
Pass2Vars == {"net", "pred_net_r", "pred_net_g", "pred_net_b"}
BaselineVars == {"net"}

\* Mutant of Pass2Forward: pass 2 reuses the embedding of pass 1.
Pass2ForwardReused == feat_label

\* The parameters pass 2's forward computation reads: self.net(images) again.
Pass2Forward == net

\* Mutant of UsesBaseline: the flag is not consulted.
UsesBaselineIgnored == FALSE

\* train(): which step function the run uses.
UsesBaseline == args.train_baseline

\* Mutant of IsValidationEpoch: every fifth epoch, counted from one.
IsValidationEpochFromOne(e) == (e + 1) % VAL_EVERY = 0

\* train(): whether a validation pass follows epoch e.
IsValidationEpoch(e) == e % VAL_EVERY = 0

\* The state tf.train.Checkpoint tracks.
CheckpointState ==
    [optimizer |-> optimizer, net |-> net, optimizer_color |-> optimizer_color,
     pred_net_r |-> pred_net_r, pred_net_g |-> pred_net_g, pred_net_b |-> pred_net_b,
     global_step |-> global_step, global_epoch |-> global_epoch]

\* The scalars a summary writer receives, tagged with the step.
Scalars(step, cl, co, mi, acc) ==
    [step |-> step, classifier_loss |-> cl, color_loss |-> co, mi_loss |-> mi,
     classifier_accuracy |-> acc]

\* The processes followed on one checkpoint directory: one that finds it empty
\* and one started after that one has finished.
Generations == {1, 2}

\* The command lines followed. test() reads neither --max_epoch nor
\* --train_baseline, which are left at their defaults there.
ArgSets ==
    [phase : {"train"}, train_baseline : BOOLEAN, max_epoch : 0..MaxEpoch,
     batch_size : 1..MaxBatchSize, dim_bias : {DEFAULT_DIM_BIAS}]
    \cup
    [phase : {"test"}, train_baseline : {FALSE}, max_epoch : {MaxEpoch},
     batch_size : 1..MaxBatchSize, dim_bias : {DEFAULT_DIM_BIAS}]

\* ---------------------------------------------------------- construction
\* What tf.train.Checkpoint tracks in a freshly built trainer.
FreshCheckpointState ==
    [optimizer |-> FreshOptimizer, net |-> FreshParams,
     optimizer_color |-> FreshOptimizer, pred_net_r |-> FreshParams,
     pred_net_g |-> FreshParams, pred_net_b |-> FreshParams,
     global_step |-> 0, global_epoch |-> 0]

\* Trainer.__init__ with _build_model and _preprocess_dataset: everything the
\* process owns, as built, by variable name.
Constructed(a) ==
    [args |-> a, pc |-> "start", epoch |-> 0, i |-> 0,
     tracked |-> FreshCheckpointState, metric |-> 0, feat_label |-> FreshParams,
     sink |-> <<>>, steps |-> 0, boundaries |-> Boundaries(a.dim_bias)]

Init ==
    /\ train_n \in 0..MaxSamples
    /\ test_n \in 0..MaxTestSamples
    /\ ckpt_dir = <<>>
    /\ runs = 1
    /\ \E a \in ArgSets :
        LET t == Constructed(a) IN
        /\ args = t.args /\ pc = t.pc /\ epoch = t.epoch /\ i = t.i
        /\ net = t.tracked.net /\ pred_net_r = t.tracked.pred_net_r
        /\ pred_net_g = t.tracked.pred_net_g /\ pred_net_b = t.tracked.pred_net_b
        /\ optimizer = t.tracked.optimizer
        /\ optimizer_color = t.tracked.optimizer_color
        /\ global_step = t.tracked.global_step
        /\ global_epoch = t.tracked.global_epoch
        /\ classifier_loss = t.metric /\ color_loss = t.metric
        /\ mi_loss = t.metric /\ classifier_accuracy = t.metric
        /\ test_classifier_loss = t.metric /\ test_color_loss = t.metric
        /\ test_mi_loss = t.metric /\ test_classifier_accuracy = t.metric
        /\ feat_label = t.feat_label
        /\ summary_writer_train = t.sink /\ summary_writer_val = t.sink
        /\ stdout = t.sink
        /\ before = t.tracked
        /\ steps = t.steps
        /\ boundaries = t.boundaries
    /\ colormap = 0
    /\ bias = 0

\* A later process on the same dataset and checkpoint directory: main() builds
\* a new Trainer from new arguments.
NewProcess ==
    /\ pc = "done"
    /\ runs + 1 \in Generations
    /\ runs' = runs + 1
    /\ \E a \in ArgSets :
        LET t == Constructed(a) IN
        /\ args' = t.args /\ pc' = t.pc /\ epoch' = t.epoch /\ i' = t.i
        /\ net' = t.tracked.net /\ pred_net_r' = t.tracked.pred_net_r
        /\ pred_net_g' = t.tracked.pred_net_g /\ pred_net_b' = t.tracked.pred_net_b
        /\ optimizer' = t.tracked.optimizer
        /\ optimizer_color' = t.tracked.optimizer_color
        /\ global_step' = t.tracked.global_step
        /\ global_epoch' = t.tracked.global_epoch
        /\ classifier_loss' = t.metric /\ color_loss' = t.metric
        /\ mi_loss' = t.metric /\ classifier_accuracy' = t.metric
        /\ test_classifier_loss' = t.metric /\ test_color_loss' = t.metric
        /\ test_mi_loss' = t.metric /\ test_classifier_accuracy' = t.metric
        /\ feat_label' = t.feat_label
        /\ summary_writer_train' = t.sink /\ summary_writer_val' = t.sink
        /\ stdout' = t.sink
        /\ before' = t.tracked
        /\ steps' = t.steps
        /\ boundaries' = t.boundaries
    /\ UNCHANGED <<dataset, ckpt_dir, colormap, bias>>

\* ------------------------------------------------------------ checkpoints
\* _restore_checkpoint, at the head of train() and test(): the latest checkpoint
\* of ckpt_dir, when there is one, replaces the tracked state.
restore_checkpoint ==
    /\ pc = "start"
    /\ LET c == IF ckpt_dir = <<>> THEN CheckpointState ELSE ckpt_dir[Len(ckpt_dir)]
       IN  /\ optimizer' = c.optimizer
           /\ net' = c.net
           /\ optimizer_color' = c.optimizer_color
           /\ pred_net_r' = c.pred_net_r
           /\ pred_net_g' = c.pred_net_g
           /\ pred_net_b' = c.pred_net_b
           /\ global_step' = c.global_step
           /\ global_epoch' = c.global_epoch
           /\ before' = c
           /\ epoch' = c.global_epoch
    /\ pc' = IF args.phase = "train" THEN "epoch" ELSE "test"
    /\ i' = 0
    /\ UNCHANGED <<args, dataset, ckpt_dir, runs, train_metrics, test_metrics,
                   feat_label, sinks, steps, quantizer>>

\* _save_checkpoint, at the end of train().
save_checkpoint ==
    /\ pc = "save"
    /\ ckpt_dir' = Append(ckpt_dir, CheckpointState)
    /\ pc' = "done"
    /\ UNCHANGED <<args, dataset, runs, epoch, i, params, optimizers, counters,
                   train_metrics, test_metrics, feat_label, sinks, before, steps,
                   quantizer>>

\* ------------------------------------------------------------ train steps
\* _train_step, first tape: forward net and the three predictors, gradient of
\* loss_pred + lambda * loss_pred_ps_color over net's variables applied by
\* self.optimizer, then the three pass-1 metrics.
train_step_pass1 ==
    /\ pc = "batch"
    /\ i < NumTrainBatches
    /\ ~UsesBaseline
    /\ feat_label' = net
    /\ net' = sgd(net, "net", "o1", Pass1Vars)
    /\ pred_net_r' = sgd(pred_net_r, "pred_net_r", "o1", Pass1Vars)
    /\ pred_net_g' = sgd(pred_net_g, "pred_net_g", "o1", Pass1Vars)
    /\ pred_net_b' = sgd(pred_net_b, "pred_net_b", "o1", Pass1Vars)
    /\ optimizer' = apply_gradients(optimizer, Pass1Vars)
    /\ classifier_loss' = update_state(classifier_loss)
    /\ mi_loss' = update_state(mi_loss)
    /\ classifier_accuracy' = update_state(classifier_accuracy)
    /\ pc' = "pass2"
    /\ UNCHANGED <<args, dataset, ckpt_dir, runs, epoch, i, optimizer_color, counters,
                   color_loss, test_metrics, sinks, before, steps, quantizer>>

\* _train_step, second tape: forward net again, gradient reversal, the three
\* predictors, gradient of loss_pred_color over net's and the predictors'
\* variables applied by self.optimizer_color, then color_loss and global_step.
train_step_pass2 ==
    /\ pc = "pass2"
    /\ feat_label' = Pass2Forward
    /\ net' = sgd(net, "net", "o2", Pass2Vars)
    /\ pred_net_r' = sgd(pred_net_r, "pred_net_r", "o2", Pass2Vars)
    /\ pred_net_g' = sgd(pred_net_g, "pred_net_g", "o2", Pass2Vars)
    /\ pred_net_b' = sgd(pred_net_b, "pred_net_b", "o2", Pass2Vars)
    /\ optimizer_color' = apply_gradients(optimizer_color, Pass2Vars)
    /\ color_loss' = update_state(color_loss)
    /\ global_step' = assign_add(global_step, 1)
    /\ steps' = steps + 1
    /\ pc' = "summary"
    /\ UNCHANGED <<args, dataset, ckpt_dir, runs, epoch, i, optimizer, global_epoch,
                   classifier_loss, mi_loss, classifier_accuracy, test_metrics, sinks,
                   before, quantizer>>

\* _train_step_baseline: one tape, gradient of loss_pred over net's variables
\* applied by self.optimizer, two metrics and global_step.
train_step_baseline ==
    /\ pc = "batch"
    /\ i < NumTrainBatches
    /\ UsesBaseline
    /\ feat_label' = net
    /\ net' = sgd(net, "net", "o1", BaselineVars)
    /\ pred_net_r' = sgd(pred_net_r, "pred_net_r", "o1", BaselineVars)
    /\ pred_net_g' = sgd(pred_net_g, "pred_net_g", "o1", BaselineVars)
    /\ pred_net_b' = sgd(pred_net_b, "pred_net_b", "o1", BaselineVars)
    /\ optimizer' = apply_gradients(optimizer, BaselineVars)
    /\ classifier_loss' = update_state(classifier_loss)
    /\ classifier_accuracy' = update_state(classifier_accuracy)
    /\ global_step' = assign_add(global_step, 1)
    /\ steps' = steps + 1
    /\ pc' = "summary"
    /\ UNCHANGED <<args, dataset, ckpt_dir, runs, epoch, i, optimizer_color,
                   global_epoch, color_loss, mi_loss, test_metrics, sinks, before,
                   quantizer>>

\* Mutant of test_step: the results are fed to the training-side metrics.
test_step_train_metrics ==
    /\ feat_label' = net
    /\ classifier_loss' = update_state(classifier_loss)
    /\ mi_loss' = update_state(mi_loss)
    /\ color_loss' = update_state(color_loss)
    /\ classifier_accuracy' = update_state(classifier_accuracy)
    /\ UNCHANGED <<params, optimizers, counters, test_metrics>>

\* _test_step: forward net and the predictors, the three losses, the four
\* test-side metrics.
test_step ==
    /\ feat_label' = net
    /\ test_classifier_loss' = update_state(test_classifier_loss)
    /\ test_mi_loss' = update_state(test_mi_loss)
    /\ test_color_loss' = update_state(test_color_loss)
    /\ test_classifier_accuracy' = update_state(test_classifier_accuracy)
    /\ UNCHANGED <<params, optimizers, counters, train_metrics>>

\* _write_summary_train(step) / _write_summary_val(step)
write_summary_train(step) ==
    summary_writer_train' = Append(summary_writer_train,
        Scalars(step, classifier_loss, color_loss, mi_loss, classifier_accuracy))

write_summary_val(step) ==
    summary_writer_val' = Append(summary_writer_val,
        Scalars(step, test_classifier_loss, test_color_loss, test_mi_loss,
                test_classifier_accuracy))

\* ------------------------------------------------------------------ train()
\* for epoch in range(self.global_epoch.value(), self.args.max_epoch)
EpochLoop ==
    /\ pc = "epoch"
    /\ IF epoch < args.max_epoch
       THEN pc' = "batch" /\ i' = 0
       ELSE pc' = "save" /\ i' = i
    /\ UNCHANGED <<args, dataset, ckpt_dir, runs, epoch, params, optimizers, counters,
                   train_metrics, test_metrics, feat_label, sinks, before, steps,
                   quantizer>>

\* Mutant of TrainSummary: the summary is written after the last batch of the
\* epoch only.
TrainSummaryPerEpoch ==
    /\ pc = "summary"
    /\ IF i + 1 = NumTrainBatches
       THEN write_summary_train(global_step)
       ELSE UNCHANGED summary_writer_train
    /\ i' = i + 1
    /\ pc' = "batch"
    /\ UNCHANGED <<args, dataset, ckpt_dir, runs, epoch, params, optimizers, counters,
                   train_metrics, test_metrics, feat_label, summary_writer_val, stdout,
                   before, steps, quantizer>>

\* Line 220, in the body of the batch loop: the summary after the step.
TrainSummary ==
    /\ pc = "summary"
    /\ write_summary_train(global_step)
    /\ i' = i + 1
    /\ pc' = "batch"
    /\ UNCHANGED <<args, dataset, ckpt_dir, runs, epoch, params, optimizers, counters,
                   train_metrics, test_metrics, feat_label, summary_writer_val, stdout,
                   before, steps, quantizer>>

\* After the batch loop: the epoch counter, the printed line, the test of
\* epoch % 5.
EpochEnd ==
    /\ pc = "batch"
    /\ i = NumTrainBatches
    /\ global_epoch' = assign_add(global_epoch, 1)
    /\ stdout' = Append(stdout, [line |-> "Epoch", epoch |-> epoch,
                                 loss |-> classifier_loss, acc |-> classifier_accuracy])
    /\ IF IsValidationEpoch(epoch)
       THEN pc' = "val" /\ i' = 0 /\ epoch' = epoch
       ELSE pc' = "epoch" /\ i' = i /\ epoch' = epoch + 1
    /\ UNCHANGED <<args, dataset, ckpt_dir, runs, params, optimizers, global_step,
                   train_metrics, test_metrics, feat_label, summary_writer_train,
                   summary_writer_val, before, steps, quantizer>>

\* The validation pass: _test_step on each held-out batch ...
ValidationStep ==
    /\ pc = "val"
    /\ i < NumTestBatches
    /\ test_step
    /\ i' = i + 1
    /\ UNCHANGED <<args, dataset, ckpt_dir, runs, pc, epoch, sinks, before, steps,
                   quantizer>>

\* ... then _write_summary_val and the printed line.
ValidationEnd ==
    /\ pc = "val"
    /\ i = NumTestBatches
    /\ write_summary_val(global_step)
    /\ stdout' = Append(stdout, [line |-> "Test", epoch |-> epoch,
                                 loss |-> test_classifier_loss,
                                 acc |-> test_classifier_accuracy])
    /\ epoch' = epoch + 1
    /\ pc' = "epoch"
    /\ UNCHANGED <<args, dataset, ckpt_dir, runs, i, params, optimizers, counters,
                   train_metrics, test_metrics, feat_label, summary_writer_train,
                   before, steps, quantizer>>

\* ------------------------------------------------------------------- test()
TestPhaseStep ==
    /\ pc = "test"
    /\ i < NumTestBatches
    /\ test_step
    /\ i' = i + 1
    /\ UNCHANGED <<args, dataset, ckpt_dir, runs, pc, epoch, sinks, before, steps,
                   quantizer>>

TestPhaseEnd ==
    /\ pc = "test"
    /\ i = NumTestBatches
    /\ stdout' = Append(stdout, [line |-> "Avg Test", epoch |-> epoch,
                                 loss |-> test_classifier_loss,
                                 acc |-> test_classifier_accuracy])
    /\ pc' = "done"
    /\ UNCHANGED <<args, dataset, ckpt_dir, runs, epoch, i, params, optimizers,
                   counters, train_metrics, test_metrics, feat_label,
                   summary_writer_train, summary_writer_val, before, steps, quantizer>>

Next ==
    \/ restore_checkpoint
    \/ EpochLoop
    \/ train_step_pass1
    \/ train_step_pass2
    \/ train_step_baseline
    \/ TrainSummary
    \/ EpochEnd
    \/ ValidationStep
    \/ ValidationEnd
    \/ save_checkpoint
    \/ TestPhaseStep
    \/ TestPhaseEnd
    \/ NewProcess

Spec == Init /\ [][Next]_vars

\* ------------------------------------------------ quantizer specification
\* _preprocess on one channel value of the resized colormap: the value is
\* bucketized by the boundaries _preprocess_dataset built.
preprocess ==
    /\ \E x \in 0..(CHANNEL_RANGE - 1) :
        /\ colormap' = x
        /\ bias' = Bucketize(x, boundaries)
    /\ UNCHANGED <<args, dataset, ckpt_dir, runs, pc, epoch, i, params, optimizers,
                   counters, train_metrics, test_metrics, feat_label, sinks, before,
                   steps, boundaries>>

\* A trainer built for each --dim_bias the quantizer can be built for.
InitQuantizer ==
    /\ train_n = 0 /\ test_n = 0
    /\ ckpt_dir = <<>>
    /\ runs = 1
    /\ \E d \in 1..MaxDimBias :
        LET a == [phase |-> "train", train_baseline |-> FALSE, max_epoch |-> 0,
                  batch_size |-> 1, dim_bias |-> d]
            t == Constructed(a) IN
        /\ args = t.args /\ pc = t.pc /\ epoch = t.epoch /\ i = t.i
        /\ net = t.tracked.net /\ pred_net_r = t.tracked.pred_net_r
        /\ pred_net_g = t.tracked.pred_net_g /\ pred_net_b = t.tracked.pred_net_b
        /\ optimizer = t.tracked.optimizer
        /\ optimizer_color = t.tracked.optimizer_color
        /\ global_step = t.tracked.global_step
        /\ global_epoch = t.tracked.global_epoch
        /\ classifier_loss = t.metric /\ color_loss = t.metric
        /\ mi_loss = t.metric /\ classifier_accuracy = t.metric
        /\ test_classifier_loss = t.metric /\ test_color_loss = t.metric
        /\ test_mi_loss = t.metric /\ test_classifier_accuracy = t.metric
        /\ feat_label = t.feat_label
        /\ summary_writer_train = t.sink /\ summary_writer_val = t.sink
        /\ stdout = t.sink
        /\ before = t.tracked
        /\ steps = t.steps
        /\ boundaries = t.boundaries
    /\ colormap = 0
    /\ bias = Bucketize(0, boundaries)

NextQuantizer == preprocess

SpecQuantizer == InitQuantizer /\ [][NextQuantizer]_vars

\* ================================================================= claims

\* Whether this process restored a checkpoint in _restore_checkpoint: whether
\* ckpt_dir held one when the process started.
Restored ==
    IF pc = "done" /\ args.phase = "train" THEN Len(ckpt_dir) > 1 ELSE Len(ckpt_dir) > 0

\* The lines of stdout of one kind, and the epochs they are about.
Lines(kind) == {k \in DOMAIN stdout : stdout[k].line = kind}
EpochsOf(kind) == {stdout[k].epoch : k \in Lines(kind)}

\* C4: for every dim_bias the quantizer can be built for, the boundaries are
\* dim_bias - 1 strictly increasing, evenly spaced thresholds inside [0, 256),
\* and every channel value of [0, 256) gets a bucket index in [0, dim_bias).
C4_BucketBoundaries ==
    /\ Len(boundaries) = args.dim_bias - 1
    /\ \A k \in DOMAIN boundaries : 0 <= boundaries[k] /\ boundaries[k] < CHANNEL_RANGE
    /\ \A k \in 1..(Len(boundaries) - 1) :
        /\ boundaries[k] < boundaries[k + 1]
        /\ boundaries[k + 1] - boundaries[k] = boundaries[1]
    /\ bias \in 0..(args.dim_bias - 1)

\* C1: after N training-step calls the step counter has advanced by exactly N
\* (N, not 2N, from 0 in a process that restored nothing), with the adversarial
\* pass or with the baseline step.
C1_StepCounter ==
    /\ global_step = before.global_step + steps
    /\ ~Restored => global_step = steps

\* C1 witness: three adversarial (two-pass) steps done in a process that
\* started from 0.
C1_Witness ==
    /\ ~Restored /\ ~args.train_baseline /\ args.phase = "train"
    /\ pc = "batch" /\ steps = 3 /\ global_step = 3
    /\ optimizer.iterations = 3 /\ optimizer_color.iterations = 3

\* C2: in train(), a validation pass (every held-out batch through _test_step,
\* then _write_summary_val) has run after epoch index e exactly when e is one of
\* the epochs run with e divisible by 5, and the epochs run are
\* global_epoch .. max_epoch - 1.
C2_ValidationCadence ==
    args.phase = "train" =>
        LET due == {e \in EpochsOf("Epoch") : \E k \in 0..MaxEpoch : e = 5 * k}
            passes == Cardinality(Lines("Test")) IN
        /\ EpochsOf("Test") \subseteq due
        /\ pc # "val" => EpochsOf("Test") = due
        /\ pc = "val" => EpochsOf("Test") = due \ {epoch}
        /\ Cardinality(EpochsOf("Test")) = passes
        /\ Len(summary_writer_val) = passes
        /\ test_classifier_loss =
               passes * NumTestBatches + (IF pc = "val" THEN i ELSE 0)
        /\ pc = "done" =>
               EpochsOf("Epoch") = {e \in 0..MaxEpoch :
                                      before.global_epoch <= e /\ e < args.max_epoch}

\* C2 witness: a finished run of epochs 0..5, validated after 0 and 5 only.
C2_Witness ==
    /\ args.phase = "train" /\ pc = "done"
    /\ EpochsOf("Epoch") = 0..5
    /\ EpochsOf("Test") = {0, 5}
    /\ NumTestBatches > 0

\* The batches of S samples in batches of B: one per batch start.
BatchStarts(S, B) == Cardinality({k \in 0..(S - 1) : k % B = 0})

\* C3 as stated: a finished adversarial train() that restored nothing has
\* global_step = max_epoch * batches, global_epoch = max_epoch, and each of the
\* four training metrics updated at least once.
C3_Original ==
    (pc = "done" /\ args.phase = "train" /\ ~args.train_baseline /\ ~Restored) =>
        /\ global_step = args.max_epoch * BatchStarts(train_n, args.batch_size)
        /\ global_epoch = args.max_epoch
        /\ classifier_loss >= 1 /\ mi_loss >= 1
        /\ color_loss >= 1 /\ classifier_accuracy >= 1

\* C3 amended: the counters as stated; each of the four training metrics has
\* received one update per step, which is at least one when max_epoch >= 1 and
\* the training set is not empty.
C3_EndToEnd ==
    (pc = "done" /\ args.phase = "train" /\ ~args.train_baseline /\ ~Restored) =>
        LET n == args.max_epoch * BatchStarts(train_n, args.batch_size) IN
        /\ global_step = n
        /\ global_epoch = args.max_epoch
        /\ classifier_loss = n /\ mi_loss = n
        /\ color_loss = n /\ classifier_accuracy = n
        /\ (args.max_epoch >= 1 /\ train_n >= 1) => n >= 1

\* C3 witness: a finished run over a training set whose last batch is partial.
C3_Witness ==
    /\ pc = "done" /\ args.phase = "train" /\ ~args.train_baseline /\ ~Restored
    /\ train_n = 3 /\ args.batch_size = 2 /\ args.max_epoch = 2
    /\ global_step = 4 /\ global_epoch = 2 /\ color_loss = 4

\* C5: in an adversarial step, pass 2's embedding is computed from the
\* parameters pass 1's update left (optimizer-1's write applied, optimizer-2's
\* not yet), and pass 1 of a step reads parameters that hold every write of the
\* steps before it.
C5_PassOrder ==
    (args.phase = "train" /\ ~args.train_baseline) =>
        /\ pc = "batch" =>
               net = [o1 |-> before.net.o1 + steps, o2 |-> before.net.o2 + steps]
        /\ pc = "pass2" =>
               /\ feat_label = [o1 |-> before.net.o1 + steps,
                                o2 |-> before.net.o2 + steps]
               /\ net = [feat_label EXCEPT !.o1 = @ + 1]
        /\ pc = "summary" =>
               /\ feat_label = [o1 |-> before.net.o1 + steps,
                                o2 |-> before.net.o2 + steps - 1]
               /\ net = [feat_label EXCEPT !.o2 = @ + 1]

\* C5 witness: the second step's pass 2 has run.
C5_Witness ==
    /\ args.phase = "train" /\ ~args.train_baseline
    /\ pc = "summary" /\ steps = 2
    /\ feat_label = [o1 |-> before.net.o1 + 2, o2 |-> before.net.o2 + 1]

\* A transition that is one call of _test_step.
IsTestStep == pc \in {"val", "test"} /\ i' = i + 1

\* C6: a call of _test_step leaves the four parameter sets, both optimizers,
\* global_step, global_epoch and the four training-side metrics as they were,
\* and updates each of the four test-side metrics exactly once.
C6_TestStepPure ==
    [][IsTestStep =>
        /\ UNCHANGED <<params, optimizers, counters, train_metrics>>
        /\ test_classifier_loss' = test_classifier_loss + 1
        /\ test_mi_loss' = test_mi_loss + 1
        /\ test_color_loss' = test_color_loss + 1
        /\ test_classifier_accuracy' = test_classifier_accuracy + 1]_vars

\* C6 witness: _test_step has run in a validation pass of a trainer whose
\* parameters, optimizers, counters and training metrics are all non-trivial.
C6_Witness ==
    /\ pc = "val" /\ i = 1
    /\ test_classifier_loss >= 1 /\ test_color_loss >= 1
    /\ net.o2 >= 1 /\ pred_net_r.o2 >= 1 /\ optimizer_color.iterations >= 1
    /\ global_step >= 1 /\ global_epoch >= 1 /\ classifier_loss >= 1

\* C7 as stated: the training summaries emitted in a run are as many as the
\* epochs it executed.
C7_Original ==
    (pc = "done" /\ args.phase = "train") =>
        Len(summary_writer_train) = Cardinality(EpochsOf("Epoch"))

\* C7 amended: _write_summary_train is invoked once after every training step,
\* tagged with the step counter, so the emissions of a run are as many as its
\* training steps (epochs executed times batches per epoch); the epoch counter
\* is incremented once per executed epoch, after all its batches.
C7_SummaryPerStep ==
    args.phase = "train" =>
        /\ Len(summary_writer_train) = steps - (IF pc = "summary" THEN 1 ELSE 0)
        /\ \A k \in DOMAIN summary_writer_train :
               summary_writer_train[k].step = before.global_step + k
        /\ global_epoch = before.global_epoch + Cardinality(Lines("Epoch"))
        /\ \A k \in Lines("Epoch") :
               Cardinality({j \in Lines("Epoch") : j <= k}) * NumTrainBatches
                   = stdout[k].loss
        /\ pc = "done" =>
               Len(summary_writer_train)
                   = Cardinality(EpochsOf("Epoch")) * NumTrainBatches

\* C7 witness: a finished run of two epochs of two batches: four emissions.
C7_Witness ==
    /\ pc = "done" /\ args.phase = "train"
    /\ Cardinality(EpochsOf("Epoch")) = 2 /\ NumTrainBatches = 2
    /\ Len(summary_writer_train) = 4

\* C8: with train_baseline, training leaves the three predictors,
\* optimizer-2, the color-loss metric and the mi-loss metric as they were before
\* training, writes net through optimizer-1 only, and updates classifier loss,
\* classifier accuracy and global_step once per step.
C8_BaselineFrame ==
    (args.phase = "train" /\ args.train_baseline) =>
        /\ pred_net_r = before.pred_net_r
        /\ pred_net_g = before.pred_net_g
        /\ pred_net_b = before.pred_net_b
        /\ optimizer_color = before.optimizer_color
        /\ color_loss = 0 /\ mi_loss = 0
        /\ classifier_loss = steps /\ classifier_accuracy = steps
        /\ global_step = before.global_step + steps
        /\ net = [before.net EXCEPT !.o1 = @ + steps]
        /\ optimizer.iterations = before.optimizer.iterations + steps

\* C8 witness: a finished baseline run of several steps on predictors and an
\* optimizer-2 that an earlier adversarial run had trained.
C8_Witness ==
    /\ args.phase = "train" /\ args.train_baseline /\ pc = "done"
    /\ steps >= 2
    /\ pred_net_r.o2 >= 2 /\ optimizer_color.iterations >= 2

\* C9: pass 1 writes net only, through optimizer-1 only; pass 2 writes net and
\* the three predictors, through optimizer-2 only; they are two updates.
C9_PassWrites ==
    [][/\ (pc = "batch" /\ pc' = "pass2") =>
            /\ net' = [net EXCEPT !.o1 = @ + 1]
            /\ UNCHANGED <<predictors, optimizer_color>>
            /\ optimizer' = [iterations |-> optimizer.iterations + 1,
                             slots |-> optimizer.slots \cup {"net"}]
       /\ (pc = "pass2" /\ pc' = "summary") =>
            /\ net' = [net EXCEPT !.o2 = @ + 1]
            /\ pred_net_r' = [pred_net_r EXCEPT !.o2 = @ + 1]
            /\ pred_net_g' = [pred_net_g EXCEPT !.o2 = @ + 1]
            /\ pred_net_b' = [pred_net_b EXCEPT !.o2 = @ + 1]
            /\ UNCHANGED optimizer
            /\ optimizer_color' =
                   [iterations |-> optimizer_color.iterations + 1,
                    slots |-> optimizer_color.slots
                                \cup {"net", "pred_net_r", "pred_net_g", "pred_net_b"}]
      ]_vars

\* C9 witness: two adversarial steps done: the predictors hold optimizer-2's
\* two writes and none of optimizer-1's.
C9_Witness ==
    /\ ~args.train_baseline /\ pc = "summary" /\ steps = 2 /\ ~Restored
    /\ net = [o1 |-> 2, o2 |-> 2]
    /\ pred_net_r = [o1 |-> 0, o2 |-> 2]
    /\ optimizer = [iterations |-> 2, slots |-> {"net"}]
    /\ optimizer_color.iterations = 2

\* The lines of one kind up to line k of stdout.
UpTo(kind, k) == Cardinality({j \in Lines(kind) : j <= k})

\* C10: the running metrics are never reset in a run: every value printed or
\* logged is over all the updates since the trainer was built (all epochs so
\* far for the training metrics, all validation passes so far for the test
\* metrics), and no metric holds less than what was printed or logged before.
C10_NeverReset ==
    /\ \A k \in DOMAIN summary_writer_train :
        /\ summary_writer_train[k].classifier_loss = k
        /\ summary_writer_train[k].classifier_accuracy = k
        /\ summary_writer_train[k].color_loss = (IF args.train_baseline THEN 0 ELSE k)
        /\ summary_writer_train[k].mi_loss = (IF args.train_baseline THEN 0 ELSE k)
        /\ classifier_loss >= k /\ classifier_accuracy >= k
    /\ \A k \in Lines("Epoch") :
        /\ stdout[k].loss = UpTo("Epoch", k) * NumTrainBatches
        /\ stdout[k].acc = UpTo("Epoch", k) * NumTrainBatches
        /\ classifier_loss >= stdout[k].loss
    /\ \A k \in Lines("Test") :
        /\ stdout[k].loss = UpTo("Test", k) * NumTestBatches
        /\ stdout[k].acc = UpTo("Test", k) * NumTestBatches
        /\ test_classifier_loss >= stdout[k].loss
    /\ \A k \in DOMAIN summary_writer_val :
        /\ summary_writer_val[k].classifier_loss = k * NumTestBatches
        /\ summary_writer_val[k].color_loss = k * NumTestBatches
        /\ summary_writer_val[k].mi_loss = k * NumTestBatches
        /\ summary_writer_val[k].classifier_accuracy = k * NumTestBatches
        /\ test_color_loss >= k * NumTestBatches

\* C10 witness: the line printed after epoch 5 is over the steps of all six
\* epochs, and the second validation line over both validation passes.
C10_Witness ==
    /\ pc = "done" /\ args.phase = "train"
    /\ NumTrainBatches = 2 /\ NumTestBatches = 1
    /\ \E k \in Lines("Epoch") : stdout[k].epoch = 5 /\ stdout[k].loss = 12
    /\ \E k \in Lines("Test") : stdout[k].epoch = 5 /\ stdout[k].loss = 2

====
